---- MODULE Spec2Model ----
(***************************************************************************)
(* Model of app.py: the device-type classifier (detect_device_type), the   *)
(* block and banner extractors, the rule runner (run_rule) and the audit   *)
(* loop.  Configuration text, patterns, remarks and evidence are strings,  *)
(* handled character by character as the Python code handles them.         *)
(***************************************************************************)
EXTENDS Integers, Sequences, FiniteSets, TLC

VARIABLES
    cfg,            \* the normalized configuration text (audit: cfg)
    rules,          \* the loaded rule list (audit: rules)
    results,        \* the audit's result rows (audit: results)
    pc,             \* position of the running operation
    router_score,   \* detect_device_type accumulators
    switch_score,
    l3_score,
    indicators,     \* detect_device_type indicator log (before truncation)
    detected,       \* the tuple detect_device_type returned, or None
    benchmark_file, \* the ruleset file the audit selected, or None
    header_regex,   \* extract_blocks: the header pattern it was called with
    eb_lines,       \* extract_blocks: lines = cfg.splitlines()
    eb_i,           \* extract_blocks: i, as a 1-based index into lines
    eb_block,       \* extract_blocks: block, the block being collected
    eb_blocks,      \* extract_blocks: blocks, the blocks collected so far
    bn_type,    \* extract_banner: the banner type it was called with
    bn_start_delim, \* extract_banner: start_delim
    bn_after,       \* extract_banner: after, the text behind the declaration
    bn_delims,      \* extract_banner: the end delimiters still to be tried
    bn_result       \* extract_banner: the value returned, or None

vars == <<cfg, rules, results, pc, router_score, switch_score, l3_score,
          indicators, detected, benchmark_file, header_regex, eb_lines, eb_i,
          eb_block, eb_blocks, bn_type, bn_start_delim, bn_after, bn_delims,
          bn_result>>

\* Python's None
None == "<None>"

(***************************************************************************)
(* Python string primitives                                                *)
(***************************************************************************)
Ch(s, k) == SubSeq(s, k, k)

\* the whitespace str.strip() and the regex class \s remove or match
Whitespace == {" ", "\t", "\n"}

UpperCase == {"A", "B", "C", "D", "E", "F", "G", "H", "I", "J", "K", "L", "M",
              "N", "O", "P", "Q", "R", "S", "T", "U", "V", "W", "X", "Y", "Z"}

LowerCase == {"a", "b", "c", "d", "e", "f", "g", "h", "i", "j", "k", "l", "m",
              "n", "o", "p", "q", "r", "s", "t", "u", "v", "w", "x", "y", "z"}

Letters == UpperCase \cup LowerCase

Digits == {"0", "1", "2", "3", "4", "5", "6", "7", "8", "9"}

LowerOf == [c \in UpperCase |->
    CASE c = "A" -> "a" [] c = "B" -> "b" [] c = "C" -> "c" [] c = "D" -> "d"
      [] c = "E" -> "e" [] c = "F" -> "f" [] c = "G" -> "g" [] c = "H" -> "h"
      [] c = "I" -> "i" [] c = "J" -> "j" [] c = "K" -> "k" [] c = "L" -> "l"
      [] c = "M" -> "m" [] c = "N" -> "n" [] c = "O" -> "o" [] c = "P" -> "p"
      [] c = "Q" -> "q" [] c = "R" -> "r" [] c = "S" -> "s" [] c = "T" -> "t"
      [] c = "U" -> "u" [] c = "V" -> "v" [] c = "W" -> "w" [] c = "X" -> "x"
      [] c = "Y" -> "y" [] c = "Z" -> "z"]

LowerCh(c) == IF c \in UpperCase THEN LowerOf[c] ELSE c

RECURSIVE Lower(_)
\* str.lower()
Lower(s) ==
    IF s = "" THEN ""
    ELSE IF Len(s) = 1 THEN LowerCh(s)
    ELSE LET h == Len(s) \div 2 IN
         Lower(SubSeq(s, 1, h)) \o Lower(SubSeq(s, h + 1, Len(s)))

RECURSIVE LStripSet(_, _)
LStripSet(s, chars) ==
    IF s # "" /\ Ch(s, 1) \in chars THEN LStripSet(Tail(s), chars) ELSE s

RECURSIVE RStripSet(_, _)
RStripSet(s, chars) ==
    IF s # "" /\ Ch(s, Len(s)) \in chars
    THEN RStripSet(SubSeq(s, 1, Len(s) - 1), chars) ELSE s

\* str.strip(), str.rstrip(), str.strip("\n")
Strip(s) == RStripSet(LStripSet(s, Whitespace), Whitespace)
RStrip(s) == RStripSet(s, Whitespace)
StripNewlines(s) == RStripSet(LStripSet(s, {"\n"}), {"\n"})

RECURSIVE IndexFrom(_, _, _)
\* the first position >= k of character c in s, or 0
IndexFrom(s, c, k) ==
    IF k > Len(s) THEN 0
    ELSE IF Ch(s, k) = c THEN k ELSE IndexFrom(s, c, k + 1)

RECURSIVE SplitLines(_)
\* str.splitlines(): no entry for the empty remainder after a final newline
SplitLines(s) ==
    IF s = "" THEN <<>>
    ELSE LET k == IndexFrom(s, "\n", 1) IN
         IF k = 0 THEN <<s>>
         ELSE <<SubSeq(s, 1, k - 1)>> \o SplitLines(SubSeq(s, k + 1, Len(s)))

RECURSIVE Join(_, _)
\* sep.join(parts)
Join(parts, sep) ==
    IF parts = <<>> THEN ""
    ELSE IF Len(parts) = 1 THEN parts[1]
    ELSE parts[1] \o sep \o Join(Tail(parts), sep)

RECURSIVE Contains(_, _)
\* sub in s
Contains(s, sub) ==
    IF Len(sub) > Len(s) THEN FALSE
    ELSE IF SubSeq(s, 1, Len(sub)) = sub THEN TRUE
    ELSE Contains(Tail(s), sub)

RECURSIVE SkipWs(_, _)
\* the first position >= p of s that holds no whitespace
SkipWs(s, p) ==
    IF p <= Len(s) /\ Ch(s, p) \in Whitespace THEN SkipWs(s, p + 1) ELSE p

RECURSIVE SkipNonWs(_, _)
\* the first position >= p of s that holds whitespace, or the end
SkipNonWs(s, p) ==
    IF p <= Len(s) /\ Ch(s, p) \notin Whitespace THEN SkipNonWs(s, p + 1) ELSE p

\* whether lit stands at position p of ls
LitAt(ls, p, lit) == p + Len(lit) <= Len(ls) + 1 /\ SubSeq(ls, p, p + Len(lit) - 1) = lit

\* seq[:n]
Take(seq, n) == SubSeq(seq, 1, IF Len(seq) < n THEN Len(seq) ELSE n)

\* dict.get(key, default)
Get(d, key, default) == IF key \in DOMAIN d THEN d[key] ELSE default

(***************************************************************************)
(* Regular expressions.  A pattern of a rule is a regex source string of   *)
(* the form  ^? literal $?  (the literal free of metacharacters, possibly  *)
(* empty, possibly holding a newline); Compile gives its parts.  All the   *)
(* code's searches are case-insensitive (re.I); multiline says whether     *)
(* re.M is set.                                                            *)
(***************************************************************************)
Compile(p) ==
    LET bol == p # "" /\ Ch(p, 1) = "^"
        rest == IF bol THEN Tail(p) ELSE p
        eol == rest # "" /\ Ch(rest, Len(rest)) = "$"
    IN  [bol |-> bol,
         lit |-> Lower(IF eol THEN SubSeq(rest, 1, Len(rest) - 1) ELSE rest),
         eol |-> eol]

\* "^" + re.escape(text): the text taken literally, anchored at the start
CompileHeader(text) == [bol |-> TRUE, lit |-> Lower(text), eol |-> FALSE]

\* ^ at position p of s
AtBol(s, p, multiline) == p = 1 \/ (multiline /\ Ch(s, p - 1) = "\n")

\* $ at position p of s (p is the position after the last matched character)
AtEol(s, p, multiline) ==
    \/ p = Len(s) + 1
    \/ multiline /\ Ch(s, p) = "\n"
    \/ ~multiline /\ p = Len(s) /\ Ch(s, p) = "\n"

\* whether compiled pattern re matches at position p of the lower-cased text ls
MatchAt(re, ls, p, multiline) ==
    LET e == p + Len(re.lit) IN
    /\ e <= Len(ls) + 1
    /\ re.bol => AtBol(ls, p, multiline)
    /\ SubSeq(ls, p, e - 1) = re.lit
    /\ re.eol => AtEol(ls, e, multiline)

RECURSIVE FirstMatchFrom(_, _, _, _)
\* the leftmost position >= p at which re matches, or 0
FirstMatchFrom(re, ls, p, multiline) ==
    IF p > Len(ls) + 1 THEN 0
    ELSE IF MatchAt(re, ls, p, multiline) THEN p
    ELSE FirstMatchFrom(re, ls, p + 1, multiline)

\* re.search(pattern, s, flags): [found, start, end) and group(0)
re_search(pattern, s, multiline) ==
    LET re == Compile(pattern)
        p == FirstMatchFrom(re, Lower(s), 1, multiline)
    IN  IF p = 0 THEN [found |-> FALSE, start |-> 0, end |-> 0, group |-> ""]
        ELSE [found |-> TRUE, start |-> p, end |-> p + Len(re.lit),
              group |-> SubSeq(s, p, p + Len(re.lit) - 1)]

RECURSIVE FindAllFrom(_, _, _, _, _)
\* the matches re.finditer yields from position p on: after a match the scan
\* resumes at its end, one further on when the match was empty
FindAllFrom(re, s, ls, p, multiline) ==
    LET q == FirstMatchFrom(re, ls, p, multiline)
        e == q + Len(re.lit)
    IN  IF q = 0 THEN <<>>
        ELSE <<SubSeq(s, q, e - 1)>> \o
             FindAllFrom(re, s, ls, IF e = q THEN q + 1 ELSE e, multiline)

\* [m.group(0) for m in re.finditer(pattern, s, flags)]
re_finditer(pattern, s, multiline) ==
    FindAllFrom(Compile(pattern), s, Lower(s), 1, multiline)

(***************************************************************************)
(* The classifier's regexes: a regex is a sequence of items, matched by    *)
(* following every choice the regex engine may backtrack to (the set of    *)
(* positions a prefix of the regex can end at), so re.search succeeds      *)
(* exactly when some start position leaves a non-empty set.                *)
(***************************************************************************)
\* literal text and (x1|x2|...), lower-cased for the case-insensitive search
Lit(x) == [t |-> "lit", v |-> <<Lower(x)>>, n |-> 0]
Alt(xs) == [t |-> "lit", v |-> [k \in DOMAIN xs |-> Lower(xs[k])], n |-> 0]
WsStar == [t |-> "ws", v |-> <<>>, n |-> 0]          \* \s*
WsPlus == [t |-> "ws", v |-> <<>>, n |-> 1]          \* \s+
DigitN(k) == [t |-> "digits", v |-> <<>>, n |-> k]   \* \d{k}
DigitPlus == [t |-> "digit+", v |-> <<>>, n |-> 1]   \* \d+
WordB == [t |-> "b", v |-> <<>>, n |-> 0]            \* \b
Bol == [t |-> "bol", v |-> <<>>, n |-> 0]            \* ^ (re.M)

\* the characters \w matches
WordChars == LowerCase \cup UpperCase \cup Digits \cup {"_"}

IsWordCh(c) == c \in WordChars

IsWordAt(s, p) == p >= 1 /\ p <= Len(s) /\ IsWordCh(Ch(s, p))

RECURSIVE SkipDigits(_, _)
SkipDigits(s, p) ==
    IF p <= Len(s) /\ Ch(s, p) \in Digits THEN SkipDigits(s, p + 1) ELSE p

\* the positions item can end at when it starts at position p of s
ItemEnds(item, s, p) ==
    CASE item.t = "lit" ->
           {p + Len(item.v[k]) : k \in {j \in DOMAIN item.v : LitAt(s, p, item.v[j])}}
      [] item.t = "ws" -> (p + item.n)..SkipWs(s, p)
      [] item.t = "digits" -> IF SkipDigits(s, p) >= p + item.n THEN {p + item.n} ELSE {}
      [] item.t = "digit+" -> (p + 1)..SkipDigits(s, p)
      [] item.t = "b" -> IF IsWordAt(s, p - 1) # IsWordAt(s, p) THEN {p} ELSE {}
      [] item.t = "bol" -> IF AtBol(s, p, TRUE) THEN {p} ELSE {}

RECURSIVE RegexEnds(_, _, _)
RegexEnds(items, s, ps) ==
    IF items = <<>> \/ ps = {} THEN ps
    ELSE RegexEnds(Tail(items), s, UNION {ItemEnds(Head(items), s, p) : p \in ps})

\* bool(re.search(regex, s, re.M | re.I)), s given lower-cased
Search(regex, s) == \E p \in 1..(Len(s) + 1) : RegexEnds(regex, s, {p}) # {}

(***************************************************************************)
(* detect_device_type                                                      *)
(***************************************************************************)
router_models == <<
    <<WordB, Lit("isr"), WordB>>,
    <<WordB, Lit("asr"), WordB>>,
    <<WordB, Lit("cisco"), WsStar, Lit("29"), DigitN(2), WordB>>,
    <<WordB, Lit("cisco"), WsStar, Lit("19"), DigitN(2), WordB>>,
    <<WordB, Lit("cisco"), WsStar, Lit("39"), DigitN(2), WordB>> >>

switch_models == <<
    <<WordB, Lit("ws-c"), DigitN(4), WordB>>,
    <<WordB, Lit("catalyst"), WordB>>,
    <<WordB, Lit("c"), DigitN(4), WordB>>,
    <<WordB, Lit("nexus"), WordB>> >>

switch_patterns == <<
    [pat |-> <<Bol, WsStar, Lit("switchport"), WordB>>, score |-> 6,
     reason |-> "Switchport found"],
    [pat |-> <<Bol, WsStar, Lit("spanning-tree"), WordB>>, score |-> 6,
     reason |-> "Spanning-tree found"],
    [pat |-> <<Bol, WsStar, Lit("vlan"), WsPlus, DigitPlus, WordB>>, score |-> 4,
     reason |-> "VLAN config found"],
    [pat |-> <<Bol, WsStar, Lit("channel-group"), WordB>>, score |-> 3,
     reason |-> "Port-channel config found"],
    [pat |-> <<Bol, WsStar, Lit("ip dhcp snooping"), WordB>>, score |-> 5,
     reason |-> "DHCP snooping found"] >>

router_patterns == <<
    [pat |-> <<Bol, WsStar, Lit("ip nat"), WordB>>, score |-> 6,
     reason |-> "NAT found"],
    [pat |-> <<Bol, WsStar, Lit("crypto "), Alt(<<"isakmp", "ikev2", "ipsec">>), WordB>>,
     score |-> 6, reason |-> "VPN/Crypto found"],
    [pat |-> <<Bol, WsStar, Lit("interface"), WsPlus,
               Alt(<<"Serial", "Tunnel", "Dialer", "Cellular">>), DigitPlus>>,
     score |-> 6, reason |-> "WAN interface found"],
    [pat |-> <<Bol, WsStar, Lit("router"), WsPlus,
               Alt(<<"bgp", "eigrp", "rip", "isis">>), WordB>>,
     score |-> 5, reason |-> "Routing protocol found"] >>

\* the four checks that add to switch_score and l3_score together
l3_signals == <<
    [pat |-> <<Bol, WsStar, Lit("interface"), WsPlus, Lit("Vlan"), DigitPlus, WordB>>,
     switch |-> 5, l3 |-> 8, reason |-> "SVI found (interface VlanX)"],
    [pat |-> <<Bol, WsStar, Lit("ip routing"), WordB>>,
     switch |-> 4, l3 |-> 8, reason |-> "ip routing enabled"],
    [pat |-> <<Bol, WsStar, Lit("ip route"), WordB>>,
     switch |-> 3, l3 |-> 6, reason |-> "Static route found (ip route)"],
    [pat |-> <<Bol, WsStar, Lit("no switchport"), WordB>>,
     switch |-> 3, l3 |-> 6, reason |-> "Routed port found (no switchport)"] >>

model_weight == 8
max_indicators == 15

\* the accumulators at the start of detect_device_type
Scores0 == [router_score |-> 0, switch_score |-> 0, l3_score |-> 0, indicators |-> <<>>]

\* "for pat in models: if re.search(pat, cfg_lower): ...; break"
AnyModel(models, text) == \E k \in DOMAIN models : Search(models[k], text)

RouterModelPass(st, text) ==
    IF AnyModel(router_models, text)
    THEN [st EXCEPT !.router_score = @ + model_weight,
                    !.indicators = Append(@, "Router hardware model signature found")]
    ELSE st

\* SwitchModelPass without the break: every model pattern that matches counts
SwitchModelPass_all(st, text) ==
    LET n == Cardinality({k \in DOMAIN switch_models : Search(switch_models[k], text)})
    IN  [st EXCEPT !.switch_score = @ + n * model_weight,
                   !.indicators = @ \o [j \in 1..n |->
                                           "Switch hardware model signature found"]]

SwitchModelPass(st, text) ==
    IF AnyModel(switch_models, text)
    THEN [st EXCEPT !.switch_score = @ + model_weight,
                    !.indicators = Append(@, "Switch hardware model signature found")]
    ELSE st

RECURSIVE SwitchPatternPass(_, _, _)
\* the loop over switch_patterns, from entry k on
SwitchPatternPass(st, text, k) ==
    IF k > Len(switch_patterns) THEN st
    ELSE SwitchPatternPass(
           IF Search(switch_patterns[k].pat, text)
           THEN [st EXCEPT !.switch_score = @ + switch_patterns[k].score,
                           !.indicators = Append(@, switch_patterns[k].reason)]
           ELSE st, text, k + 1)

RECURSIVE RouterPatternPass(_, _, _)
\* the loop over router_patterns, from entry k on
RouterPatternPass(st, text, k) ==
    IF k > Len(router_patterns) THEN st
    ELSE RouterPatternPass(
           IF Search(router_patterns[k].pat, text)
           THEN [st EXCEPT !.router_score = @ + router_patterns[k].score,
                           !.indicators = Append(@, router_patterns[k].reason)]
           ELSE st, text, k + 1)

RECURSIVE L3Pass_l3only(_, _, _)
\* L3Pass adding to l3_score alone
L3Pass_l3only(st, text, k) ==
    IF k > Len(l3_signals) THEN st
    ELSE L3Pass_l3only(
           IF Search(l3_signals[k].pat, text)
           THEN [st EXCEPT !.l3_score = @ + l3_signals[k].l3,
                           !.indicators = Append(@, l3_signals[k].reason)]
           ELSE st, text, k + 1)

RECURSIVE L3Pass(_, _, _)
\* the four L3 checks, from check k on
L3Pass(st, text, k) ==
    IF k > Len(l3_signals) THEN st
    ELSE L3Pass(
           IF Search(l3_signals[k].pat, text)
           THEN [st EXCEPT !.switch_score = @ + l3_signals[k].switch,
                           !.l3_score = @ + l3_signals[k].l3,
                           !.indicators = Append(@, l3_signals[k].reason)]
           ELSE st, text, k + 1)

\* DecideType with the L3 threshold off by one
DecideType_strict(r, s, l) ==
    IF l > 12 /\ s >= 10 THEN "switch_l3"
    ELSE IF r >= s + 4 /\ r >= 10 THEN "router"
    ELSE IF s >= r + 4 /\ s >= 10 THEN "switch_l2"
    ELSE "unknown"

\* the device-type decision
DecideType(r, s, l) ==
    IF l >= 12 /\ s >= 10 THEN "switch_l3"
    ELSE IF r >= s + 4 /\ r >= 10 THEN "router"
    ELSE IF s >= r + 4 /\ s >= 10 THEN "switch_l2"
    ELSE "unknown"

Max3(a, b, c) == IF a >= b /\ a >= c THEN a ELSE IF b >= c THEN b ELSE c

\* Confidence with the upper band starting one too high
Confidence_strict(device_type, r, s, l) ==
    IF device_type = "unknown" THEN "Low"
    ELSE LET top == Max3(r, s, l) IN
         IF top > 22 THEN "High" ELSE IF top >= 14 THEN "Medium" ELSE "Low"

\* the confidence band
Confidence(device_type, r, s, l) ==
    IF device_type = "unknown" THEN "Low"
    ELSE LET top == Max3(r, s, l) IN
         IF top >= 22 THEN "High" ELSE IF top >= 14 THEN "Medium" ELSE "Low"

\* DetectResult cutting the indicator list to its first three entries
DetectResult_short(st) ==
    LET device_type == DecideType(st.router_score, st.switch_score, st.l3_score) IN
    [device_type |-> device_type,
     confidence |-> Confidence(device_type, st.router_score, st.switch_score, st.l3_score),
     indicators |-> Take(st.indicators, 3),
     scores |-> [router_score |-> st.router_score, switch_score |-> st.switch_score,
                 l3_score |-> st.l3_score]]

\* what detect_device_type returns from the final accumulators
DetectResult(st) ==
    LET device_type == DecideType(st.router_score, st.switch_score, st.l3_score) IN
    [device_type |-> device_type,
     confidence |-> Confidence(device_type, st.router_score, st.switch_score, st.l3_score),
     indicators |-> Take(st.indicators, max_indicators),
     scores |-> [router_score |-> st.router_score, switch_score |-> st.switch_score,
                 l3_score |-> st.l3_score]]

\* detect_device_type(cfg).  The model signatures are searched in cfg_lower and
\* the other patterns in cfg under re.I: both are searches of the lower-cased
\* text for the lower-cased pattern.
detect_device_type(text) ==
    LET cfg_lower == Lower(text) IN
    DetectResult(L3Pass(RouterPatternPass(SwitchPatternPass(
        SwitchModelPass(RouterModelPass(Scores0, cfg_lower), cfg_lower),
        cfg_lower, 1), cfg_lower, 1), cfg_lower, 1))

(***************************************************************************)
(* Rule helpers                                                            *)
(***************************************************************************)
\* line.strip() == "!"
IsTerminator(line) == Strip(line) = "!"

\* re.match(r"^[A-Za-z]", line)
StartsWithLetter(line) == line # "" /\ Ch(line, 1) \in Letters

\* re.search(header_regex, line, re.I)
HeaderMatches(hre, line) == FirstMatchFrom(hre, Lower(line), 1, FALSE) # 0

RECURSIVE InnerLoopEnd(_, _)
\* extract_blocks' inner loop: the index at which it stops (a break, or the end)
InnerLoopEnd(ls, k) ==
    IF k > Len(ls) THEN k
    ELSE IF IsTerminator(ls[k]) \/ StartsWithLetter(ls[k]) THEN k
    ELSE InnerLoopEnd(ls, k + 1)

\* AfterBlock stepping over one line more
AfterBlock_skip(k) == k + 2

\* the outer loop's step after a block ended at index k: "i += 1"
AfterBlock(k) == k + 1

RECURSIVE OuterLoop(_, _, _)
OuterLoop(ls, k, hre) ==
    IF k > Len(ls) THEN <<>>
    ELSE IF HeaderMatches(hre, ls[k])
    THEN LET e == InnerLoopEnd(ls, k + 1) IN
         <<Join(SubSeq(ls, k, e - 1), "\n")>> \o OuterLoop(ls, AfterBlock(e), hre)
    ELSE OuterLoop(ls, k + 1, hre)

\* extract_blocks(cfg, header_regex), header_regex compiled
extract_blocks(text, hre) == OuterLoop(SplitLines(text), 1, hre)

max_lines_regex == 8
max_lines_all == 200

RECURSIVE MatchingLines(_, _, _)
\* the lines (rstripped) that match pattern, in order, at most limit of them
MatchingLines(ls, pattern, limit) ==
    IF ls = <<>> \/ limit = 0 THEN <<>>
    ELSE IF re_search(pattern, Head(ls), FALSE).found
    THEN <<RStrip(Head(ls))>> \o MatchingLines(Tail(ls), pattern, limit - 1)
    ELSE MatchingLines(Tail(ls), pattern, limit)

evidence_regex(text, pattern) ==
    LET ev == MatchingLines(SplitLines(text), pattern, max_lines_regex)
    IN  IF ev # <<>> THEN Join(ev, "\n") ELSE "-"

evidence_all_lines(text, pattern) ==
    LET ls == SplitLines(text)
        ev == MatchingLines(ls, pattern, Len(ls))
    IN  IF ev = <<>> THEN "-" ELSE Join(Take(ev, max_lines_all), "\n")

(***************************************************************************)
(* extract_banner.  Its two regexes are matched as the regex engine        *)
(* matches them: \s also crosses line ends, each greedy run is maximal     *)
(* because the item after it starts with a non-space character, and the    *)
(* final \s*$ gives back what it must to end at a line end.                *)
(***************************************************************************)
RECURSIVE LastNewline(_, _, _)
\* the last newline of s in positions p..q, or 0
LastNewline(s, p, q) ==
    IF q < p THEN 0 ELSE IF Ch(s, q) = "\n" THEN q ELSE LastNewline(s, p, q - 1)

\* \s*$ (multiline) from position p: the position the match ends at, or 0
TrailingWsEol(s, p) ==
    LET m == SkipWs(s, p) IN
    IF m = Len(s) + 1 THEN m ELSE LastNewline(s, p, m - 1)

\* ^\s*banner\s+<type>\s+(\S+)\s*$ tried at position p
BannerStartAt(s, ls, p, banner_type) ==
    LET q1 == SkipWs(ls, p)
        q2 == q1 + 6
        q3 == SkipWs(ls, q2)
        q4 == q3 + Len(banner_type)
        q5 == SkipWs(ls, q4)
        q6 == SkipNonWs(ls, q5)
        ok == /\ AtBol(ls, p, TRUE)
              /\ LitAt(ls, q1, "banner")
              /\ q3 > q2
              /\ LitAt(ls, q3, banner_type)
              /\ q5 > q4
              /\ q6 > q5
              /\ TrailingWsEol(ls, q6) # 0
    IN  IF ok THEN [found |-> TRUE, delim |-> SubSeq(s, q5, q6 - 1),
                    end |-> TrailingWsEol(ls, q6)]
        ELSE [found |-> FALSE, delim |-> "", end |-> 0]

RECURSIVE BannerStartFrom(_, _, _, _)
BannerStartFrom(s, ls, p, banner_type) ==
    IF p > Len(s) + 1 THEN [found |-> FALSE, delim |-> "", end |-> 0]
    ELSE IF BannerStartAt(s, ls, p, banner_type).found
    THEN BannerStartAt(s, ls, p, banner_type)
    ELSE BannerStartFrom(s, ls, p + 1, banner_type)

RECURSIVE BannerEndFrom(_, _, _)
\* ^\s*<re.escape(d)>\s*$ : the start of the leftmost match at or after p, or 0
BannerEndFrom(la, p, d) ==
    IF p > Len(la) + 1 THEN 0
    ELSE IF /\ AtBol(la, p, TRUE)
            /\ LitAt(la, SkipWs(la, p), d)
            /\ TrailingWsEol(la, SkipWs(la, p) + Len(d)) # 0
    THEN p
    ELSE BannerEndFrom(la, p + 1, d)

RECURSIVE Dedup(_, _)
\* the list without its repeated entries, first occurrences kept
Dedup(list, seen) ==
    IF list = <<>> THEN <<>>
    ELSE IF Head(list) \in seen THEN Dedup(Tail(list), seen)
    ELSE <<Head(list)>> \o Dedup(Tail(list), seen \cup {Head(list)})

possible_end_delims(start_delim) ==
    Dedup(<<start_delim>>
          \o (IF Ch(start_delim, 1) = "^" /\ Len(start_delim) > 2
              THEN <<"^C">> ELSE <<>>)
          \o <<"^C">>, {})

RECURSIVE FirstEndDelim(_, _, _, _)
FirstEndDelim(after, ds, banner_type, start_delim) ==
    IF ds = <<>> THEN None
    ELSE LET m_end == BannerEndFrom(Lower(after), 1, Lower(Head(ds))) IN
         IF m_end # 0
         THEN "banner " \o banner_type \o " " \o start_delim \o "\n"
              \o StripNewlines(SubSeq(after, 1, m_end - 1)) \o "\n" \o Head(ds)
         ELSE FirstEndDelim(after, Tail(ds), banner_type, start_delim)

\* extract_banner(cfg_text, banner_type): the banner text, or None
extract_banner(cfg_text, banner_type) ==
    LET start == BannerStartFrom(cfg_text, Lower(cfg_text), 1, banner_type) IN
    IF ~start.found THEN None
    ELSE LET start_delim == Strip(start.delim)
             after == SubSeq(cfg_text, start.end, Len(cfg_text))
         IN  FirstEndDelim(after, possible_end_delims(start_delim),
                           banner_type, start_delim)

(***************************************************************************)
(* The rule runner.  A rule is a record (a JSON object); a key it lacks    *)
(* takes the default rule.get names.  A result is <<status, remark,        *)
(* evidence>>.                                                             *)
(***************************************************************************)
\* the truth value Python gives a string or None
Truthy(x) == x # "" /\ x # None

Expect(rule, default) == Lower(Get(rule, "expect", default))

\* PresentPolarity with the two outcomes exchanged
PresentPolarity_swapped(found, ev) ==
    IF found THEN <<"FAIL", "Not found", "-">> ELSE <<"PASS", "Matched", ev>>

PresentPolarity(found, ev) ==
    IF found THEN <<"PASS", "Matched", ev>> ELSE <<"FAIL", "Not found", "-">>

AbsentPolarity(found, remark, ev) ==
    IF found THEN <<"FAIL", remark, ev>> ELSE <<"PASS", "Not present (good)", "-">>

InvalidExpect(ev) == <<"MANUAL", "Invalid expect value", ev>>

\* the result for a rule that lacks what its type needs
PatternMissing(title) == <<"MANUAL", title \o " (pattern missing)", "-">>
BlockOrPatternMissing(title) == <<"MANUAL", title \o " (block/pattern missing)", "-">>

run_regex(text, rule, title) ==
    LET pattern == Get(rule, "pattern", "")
        expect == Expect(rule, "present")
        found == re_search(pattern, text, TRUE).found
        ev == evidence_regex(text, pattern)
    IN  IF ~Truthy(pattern) THEN PatternMissing(title)
        ELSE IF expect = "present" THEN PresentPolarity(found, ev)
        ELSE IF expect = "absent"
        THEN AbsentPolarity(found, "Insecure config found", ev)
        ELSE IF expect = "manual"
        THEN <<"MANUAL", "Manual verification required", IF found THEN ev ELSE "-">>
        ELSE InvalidExpect("-")

run_regex_capture(text, rule, title) ==
    LET pattern == Get(rule, "pattern", "")
        expect == Expect(rule, "present")
        m == re_search(pattern, text, TRUE)
        found == m.found
        ev == IF found THEN Strip(m.group) ELSE "-"
    IN  IF ~Truthy(pattern) THEN PatternMissing(title)
        ELSE IF expect = "present" THEN PresentPolarity(found, ev)
        ELSE IF expect = "absent"
        THEN AbsentPolarity(found, "Insecure config found", ev)
        ELSE InvalidExpect("-")

run_regex_capture_all(text, rule, title) ==
    LET pattern == Get(rule, "pattern", "")
        expect == Expect(rule, "present")
        matches == re_finditer(pattern, text, TRUE)
        stripped == [k \in 1..Len(matches) |-> Strip(matches[k])]
        output_lines == SelectSeq(stripped, LAMBDA x : x # "")
        evidence == Join(Take(output_lines, max_lines_all), "\n")
        count == ToString(Len(output_lines))
    IN  IF ~Truthy(pattern) THEN PatternMissing(title)
        ELSE IF matches = <<>>
        THEN IF expect = "present" THEN <<"FAIL", "Not found", "-">>
             ELSE IF expect = "absent" THEN <<"PASS", "Not present (good)", "-">>
             ELSE InvalidExpect("-")
        ELSE IF expect = "present"
        THEN <<"PASS", "Matched " \o count \o " entries", evidence>>
        ELSE IF expect = "absent"
        THEN <<"FAIL", "Insecure config found (" \o count \o " entries)", evidence>>
        ELSE InvalidExpect(evidence)

run_banner(text, rule) ==
    LET banner_type == Lower(Strip(Get(rule, "banner_type", "login")))
        expect == Expect(rule, "present")
        banner_text == extract_banner(text, banner_type)
        found == banner_text # None
    IN  IF expect = "present" THEN PresentPolarity(found, banner_text)
        ELSE IF expect = "absent"
        THEN AbsentPolarity(found, "Banner present (should be removed)", banner_text)
        ELSE InvalidExpect("-")

RECURSIVE BlockPresentEvidence(_, _, _)
\* block_present's loop over the blocks: all_evidence
BlockPresentEvidence(bs, pattern, evidence_pattern) ==
    IF bs = <<>> THEN <<>>
    ELSE (IF re_search(pattern, Head(bs), TRUE).found
          THEN <<SplitLines(Head(bs))[1],
                 evidence_all_lines(Head(bs), IF Truthy(evidence_pattern)
                                              THEN evidence_pattern ELSE pattern)>>
          ELSE <<>>)
         \o BlockPresentEvidence(Tail(bs), pattern, evidence_pattern)

RECURSIVE BlockAbsentEvidence(_, _, _)
\* block_absent's loop over the blocks: evidence_lines
BlockAbsentEvidence(bs, pattern, evidence_pattern) ==
    IF bs = <<>> THEN <<>>
    ELSE (IF re_search(pattern, Head(bs), TRUE).found
          THEN <<IF Truthy(evidence_pattern)
                 THEN evidence_all_lines(Head(bs), evidence_pattern)
                 ELSE evidence_regex(Head(bs), pattern)>>
          ELSE <<>>)
         \o BlockAbsentEvidence(Tail(bs), pattern, evidence_pattern)

\* x or "-"
OrDash(x) == IF x = "" THEN "-" ELSE x

\* BlockNotFound taking the missing block for the absence of the finding
BlockNotFound_pass(block_header) == <<"PASS", "Not present (good)", "-">>

BlockNotFound(block_header) == <<"FAIL", block_header \o " block not found", "-">>

run_block_present(text, rule, title) ==
    LET block_header == Get(rule, "block", "")
        pattern == Get(rule, "pattern", "")
        expect == Expect(rule, "present")
        evidence_pattern == Get(rule, "evidence_pattern", None)
        bs == extract_blocks(text, CompileHeader(block_header))
        all_evidence == BlockPresentEvidence(bs, pattern, evidence_pattern)
        found_any == all_evidence # <<>>
        evidence == OrDash(Strip(Join(all_evidence, "\n")))
        matched == "Matched in " \o ToString(Len(all_evidence) \div 2) \o " block(s)"
    IN  IF ~Truthy(block_header) \/ ~Truthy(pattern)
        THEN BlockOrPatternMissing(title)
        ELSE IF bs = <<>> THEN BlockNotFound(block_header)
        ELSE IF expect = "present"
        THEN IF found_any THEN <<"PASS", matched, evidence>>
             ELSE <<"FAIL", "Not found", "-">>
        ELSE IF expect = "manual"
        THEN IF found_any THEN <<"MANUAL", matched, evidence>>
             ELSE <<"MANUAL", "Manual verification required", "-">>
        ELSE InvalidExpect(evidence)

run_block_absent(text, rule, title) ==
    LET block_header == Get(rule, "block", "")
        pattern == Get(rule, "pattern", "")
        expect == Expect(rule, "absent")
        evidence_pattern == Get(rule, "evidence_pattern", None)
        bs == extract_blocks(text, CompileHeader(block_header))
        evidence_lines == BlockAbsentEvidence(bs, pattern, evidence_pattern)
        found_any == evidence_lines # <<>>
        evidence == OrDash(Strip(Join(
            SelectSeq(evidence_lines, LAMBDA x : Truthy(x) /\ x # "-"), "\n\n")))
    IN  IF ~Truthy(block_header) \/ ~Truthy(pattern)
        THEN BlockOrPatternMissing(title)
        ELSE IF bs = <<>> THEN BlockNotFound(block_header)
        ELSE IF expect = "absent"
        THEN AbsentPolarity(found_any, "Insecure config found in block", evidence)
        ELSE InvalidExpect("-")

\* an unsupported type reported as a finding
Unsupported_fail == <<"FAIL", "Rule type not supported", "-">>

Unsupported == <<"MANUAL", "Rule type not supported", "-">>

\* rule.get("type", "").lower().strip()
RuleType(rule) == Strip(Lower(Get(rule, "type", "")))

\* run_rule(cfg, rule)
run_rule(text, rule) ==
    LET rule_type == RuleType(rule)
        title == Get(rule, "title", "Unknown Rule")
    IN  IF rule_type = "manual"
        THEN <<"MANUAL", "Manual verification required", "-">>
        ELSE IF rule_type = "regex" THEN run_regex(text, rule, title)
        ELSE IF rule_type = "regex_capture" THEN run_regex_capture(text, rule, title)
        ELSE IF rule_type = "regex_capture_all"
        THEN run_regex_capture_all(text, rule, title)
        ELSE IF rule_type = "banner" THEN run_banner(text, rule)
        ELSE IF rule_type = "block_present" THEN run_block_present(text, rule, title)
        ELSE IF rule_type = "block_absent" THEN run_block_absent(text, rule, title)
        ELSE Unsupported

(***************************************************************************)
(* The audit route: classify, select the ruleset, load it, run every rule. *)
(***************************************************************************)
ROUTER_JSON == "Cisco_router_benchmark.json"
SWITCH_L2_JSON == "switch_benchmark.json"
SWITCH_L3_JSON == "l3_switch.json"

\* BenchmarkFor with no ruleset for a device it could not classify
BenchmarkFor_classified(device_type) ==
    IF device_type = "router" THEN ROUTER_JSON
    ELSE IF device_type = "switch_l3" THEN SWITCH_L3_JSON
    ELSE IF device_type = "switch_l2" THEN SWITCH_L2_JSON
    ELSE None

\* the benchmark file for a device type
BenchmarkFor(device_type) ==
    IF device_type = "router" THEN ROUTER_JSON
    ELSE IF device_type = "switch_l3" THEN SWITCH_L3_JSON
    ELSE IF device_type = "switch_l2" THEN SWITCH_L2_JSON
    ELSE SWITCH_L2_JSON

\* the row the loop appends for a rule and run_rule's result for it
ResultRow(rule, res) ==
    [ID |-> Get(rule, "id", "N/A"),
     Section |-> Get(rule, "section", "-"),
     Title |-> Get(rule, "title", "-"),
     Status |-> res[1],
     Risk |-> Get(rule, "risk", "Medium"),
     Remark |-> res[2],
     Evidence |-> res[3],
     Recommendation |-> Get(rule, "recommendation", "-")]

\* the loop walking the rule list from its end
NextRule_reversed(done) == Len(rules) - done

\* the rule the loop "for rule in rules" takes next: the one after those done
NextRule(done) == done + 1

(***************************************************************************)
(* Inputs.                                                                 *)
(***************************************************************************)
MaxCfgLines == 4      \* lines of a configuration given to the classifier
MaxRuleLines == 3     \* lines of a configuration given to a single rule
MaxBlockLines == 4    \* lines of a configuration given to extract_blocks
MaxRules == 3         \* rules of a loaded ruleset

\* every sequence over S of length at most n
SeqUpTo(S, n) == UNION {[1..k -> S] : k \in 0..n}

\* One line per signal of the classifier, in an order that is not the order
\* the classifier looks for them in.
ConfigLines == <<
    " no switchport",
    "router bgp 65000",
    "interface Vlan10",
    "spanning-tree mode rapid-pvst",
    "ip nat inside",
    "Cisco 2901",
    "WS-C2960",
    " switchport mode access",
    "vlan 10",
    " channel-group 1 mode on",
    "ip dhcp snooping",
    "crypto isakmp policy 10",
    "interface Serial0",
    "ip routing",
    "ip route 10.1.0.0 10.0.0.1" >>

\* the lines of ConfigLines at the positions in sel, joined in that order
SelectLines(sel) == Join(SelectSeq([k \in DOMAIN ConfigLines |->
                             IF k \in sel THEN ConfigLines[k] ELSE None],
                         LAMBDA x : x # None), "\n")

\* texts in which a signal's line stands twice, and the text of all the
\* lines, once and twice over
RepeatedTexts ==
    {ConfigLines[k] \o "\n" \o ConfigLines[k] : k \in DOMAIN ConfigLines}
    \cup {Join(ConfigLines, "\n"), Join(ConfigLines \o ConfigLines, "\n")}

DetectTexts == {SelectLines(sel) : sel \in {x \in SUBSET DOMAIN ConfigLines :
                                             Cardinality(x) <= MaxCfgLines}}
               \cup RepeatedTexts

RuleLines == {"line vty 0 4", " login", "", "banner motd ^C", "^C"}

RuleTexts == {Join(ls, "\n") : ls \in SeqUpTo(RuleLines, MaxRuleLines)}

Expects == {<<>>} \cup {[expect |-> e] : e \in {"present", "absent", "manual", "sometimes"}}

\* rules of the three whole-text types: the pattern absent, empty, a word,
\* a blank line, a single space
RegexRules ==
    {[type |-> t] @@ p @@ e :
        t \in {"regex", "regex_capture", "regex_capture_all"},
        p \in {<<>>} \cup {[pattern |-> x] : x \in {"", "login", "^$", " "}},
        e \in Expects}

BannerRules ==
    {[type |-> "banner"] @@ b @@ e :
        b \in {<<>>, [banner_type |-> "motd"], [banner_type |-> " MOTD"]},
        e \in Expects}

BlockFields ==
    {[pattern |-> "login"],
     [block |-> "line vty"],
     [block |-> "", pattern |-> "login"],
     [block |-> "line vty", pattern |-> "login"],
     [block |-> "line vty", pattern |-> "login", evidence_pattern |-> "^ "],
     [block |-> "line vty", pattern |-> "telnet"],
     [block |-> "interface", pattern |-> "login"]}

BlockRules ==
    {[type |-> t] @@ f @@ e :
        t \in {"block_present", "block_absent"}, f \in BlockFields, e \in Expects}

OtherRules ==
    {[type |-> "manual"],
     [type |-> "Manual ", pattern |-> "login"],
     [type |-> " Regex", pattern |-> "LOGIN", expect |-> "Absent", title |-> "No login"],
     [type |-> "regexp", pattern |-> "login", expect |-> "present"],
     [pattern |-> "login", expect |-> "present"],
     [type |-> "regex", title |-> "Telnet", expect |-> "absent"]}

Rules == RegexRules \cup BannerRules \cup BlockRules \cup OtherRules

\* the rules of a small benchmark file, complete and incomplete ones
AuditRules ==
    {[id |-> "1.1", section |-> "Management", title |-> "Login on vty lines",
      type |-> "block_present", block |-> "line vty", pattern |-> "login",
      expect |-> "present", risk |-> "High", recommendation |-> "Configure login"],
     [id |-> "1.2", title |-> "No banner", type |-> "banner", expect |-> "absent"],
     [section |-> "Services", type |-> "regex", expect |-> "absent"],
     [id |-> "9.9", type |-> "xpath", pattern |-> "login"]}

RuleLists == SeqUpTo(AuditRules, MaxRules)

AuditTexts ==
    {"line vty 0 4\n login",
     "Cisco 2901\nip nat inside\nline vty 0 4\n login\n!",
     "WS-C2960\n switchport mode access\nbanner motd ^C\nWelcome\n^C",
     "interface Vlan10\nip routing\n switchport mode access\nspanning-tree mode rapid-pvst",
     "Cisco 2901\nip nat inside\ncrypto isakmp policy 10\ninterface Serial0"}

BlockLines == {"line vty 0 4", " login", "!", "interface Vlan10", ""}

BlockTexts == {Join(ls, "\n") : ls \in SeqUpTo(BlockLines, MaxBlockLines)}

BlockHeaders == {"line vty"}

MaxBannerLines == 4   \* lines of a configuration given to extract_banner

BannerLines == {"banner motd ^C", "banner motd #", "banner motd", "Welcome", "",
                "^C", " ^c", " # "}

BannerTexts == {Join(ls, "\n") : ls \in SeqUpTo(BannerLines, MaxBannerLines)}

BannerTypes == {"motd"}

(***************************************************************************)
(* State machines.                                                         *)
(***************************************************************************)
detect_vars == <<router_score, switch_score, l3_score, indicators>>
audit_vars == <<rules, results, benchmark_file>>
blocks_vars == <<header_regex, eb_lines, eb_i, eb_block, eb_blocks>>
banner_vars == <<bn_type, bn_start_delim, bn_after, bn_delims, bn_result>>

DetectIdle ==
    /\ router_score = 0 /\ switch_score = 0 /\ l3_score = 0
    /\ indicators = <<>> /\ detected = None

AuditIdle == rules = <<>> /\ results = <<>> /\ benchmark_file = None

BlocksIdle ==
    /\ header_regex = None /\ eb_lines = <<>> /\ eb_i = 0
    /\ eb_block = <<>> /\ eb_blocks = <<>>

BannerIdle ==
    /\ bn_type = None /\ bn_start_delim = None /\ bn_after = None
    /\ bn_delims = <<>> /\ bn_result = None

\* the accumulators of a running detect_device_type
Scores == [router_score |-> router_score, switch_score |-> switch_score,
           l3_score |-> l3_score, indicators |-> indicators]

SetScores(st) ==
    /\ router_score' = st.router_score
    /\ switch_score' = st.switch_score
    /\ l3_score' = st.l3_score
    /\ indicators' = st.indicators

\* detect_device_type, pass by pass
CheckRouterModels ==
    /\ pc = "router_models"
    /\ SetScores(RouterModelPass(Scores, Lower(cfg)))
    /\ pc' = "switch_models"
    /\ UNCHANGED <<cfg, banner_vars, detected, audit_vars, blocks_vars>>

CheckSwitchModels ==
    /\ pc = "switch_models"
    /\ SetScores(SwitchModelPass(Scores, Lower(cfg)))
    /\ pc' = "switch_patterns"
    /\ UNCHANGED <<cfg, banner_vars, detected, audit_vars, blocks_vars>>

ScanSwitchPatterns ==
    /\ pc = "switch_patterns"
    /\ SetScores(SwitchPatternPass(Scores, Lower(cfg), 1))
    /\ pc' = "router_patterns"
    /\ UNCHANGED <<cfg, banner_vars, detected, audit_vars, blocks_vars>>

ScanRouterPatterns ==
    /\ pc = "router_patterns"
    /\ SetScores(RouterPatternPass(Scores, Lower(cfg), 1))
    /\ pc' = "l3_signals"
    /\ UNCHANGED <<cfg, banner_vars, detected, audit_vars, blocks_vars>>

CheckL3Signals ==
    /\ pc = "l3_signals"
    /\ SetScores(L3Pass(Scores, Lower(cfg), 1))
    /\ pc' = "decide"
    /\ UNCHANGED <<cfg, banner_vars, detected, audit_vars, blocks_vars>>

Decide ==
    /\ pc = "decide"
    /\ detected' = DetectResult(Scores)
    /\ pc' = "returned"
    /\ UNCHANGED <<cfg, banner_vars, detect_vars, audit_vars, blocks_vars>>

InitDetect ==
    /\ cfg \in DetectTexts
    /\ pc = "router_models"
    /\ DetectIdle /\ AuditIdle /\ BlocksIdle /\ BannerIdle

NextDetect ==
    \/ CheckRouterModels
    \/ CheckSwitchModels
    \/ ScanSwitchPatterns
    \/ ScanRouterPatterns
    \/ CheckL3Signals
    \/ Decide

SpecDetect == InitDetect /\ [][NextDetect]_vars

\* the audit route
AuditDetect ==
    /\ pc = "audit"
    /\ detected' = detect_device_type(cfg)
    /\ pc' = "select"
    /\ UNCHANGED <<cfg, banner_vars, detect_vars, audit_vars, blocks_vars>>

AuditSelect ==
    /\ pc = "select"
    /\ benchmark_file' = BenchmarkFor(detected.device_type)
    /\ pc' = "load"
    /\ UNCHANGED <<cfg, banner_vars, detect_vars, detected, rules, results, blocks_vars>>

\* json.load of the benchmark file: whatever rule list the file holds
AuditLoad ==
    /\ pc = "load"
    /\ \E rs \in RuleLists : rules' = rs
    /\ results' = <<>>
    /\ pc' = "loop"
    /\ UNCHANGED <<cfg, banner_vars, detect_vars, detected, benchmark_file, blocks_vars>>

\* one iteration of "for rule in rules"
AuditRule ==
    /\ pc = "loop"
    /\ Len(results) < Len(rules)
    /\ LET rule == rules[NextRule(Len(results))] IN
       results' = Append(results, ResultRow(rule, run_rule(cfg, rule)))
    /\ UNCHANGED <<cfg, banner_vars, pc, detect_vars, detected, rules, benchmark_file, blocks_vars>>

\* the loop is over: the results go to the report
AuditReport ==
    /\ pc = "loop"
    /\ Len(results) >= Len(rules)
    /\ pc' = "report"
    /\ UNCHANGED <<cfg, banner_vars, detect_vars, detected, audit_vars, blocks_vars>>

InitAudit ==
    /\ cfg \in AuditTexts
    /\ pc = "audit"
    /\ DetectIdle /\ AuditIdle /\ BlocksIdle /\ BannerIdle

NextAudit == AuditDetect \/ AuditSelect \/ AuditLoad \/ AuditRule \/ AuditReport

SpecAudit == InitAudit /\ [][NextAudit]_vars

\* run_rule on one configuration and one rule: the loop over a one-rule list
InitRule ==
    /\ cfg \in RuleTexts
    /\ \E r \in Rules : rules = <<r>>
    /\ results = <<>>
    /\ benchmark_file = None
    /\ pc = "loop"
    /\ DetectIdle /\ BlocksIdle /\ BannerIdle

NextRuleStep == AuditRule \/ AuditReport

SpecRule == InitRule /\ [][NextRuleStep]_vars

\* extract_blocks, line by line
EbStart ==
    /\ pc = "eb_start"
    /\ eb_lines' = SplitLines(cfg)
    /\ eb_blocks' = <<>>
    /\ eb_i' = 1
    /\ pc' = "eb_scan"
    /\ UNCHANGED <<cfg, banner_vars, detect_vars, detected, audit_vars, header_regex, eb_block>>

\* Scanning, at a header line: a block begins
EbHeader ==
    /\ pc = "eb_scan"
    /\ eb_i <= Len(eb_lines)
    /\ HeaderMatches(header_regex, eb_lines[eb_i])
    /\ eb_block' = <<eb_lines[eb_i]>>
    /\ eb_i' = eb_i + 1
    /\ pc' = "eb_inblock"
    /\ UNCHANGED <<cfg, banner_vars, detect_vars, detected, audit_vars, header_regex, eb_lines, eb_blocks>>

\* Scanning, at any other line
EbSkip ==
    /\ pc = "eb_scan"
    /\ eb_i <= Len(eb_lines)
    /\ ~HeaderMatches(header_regex, eb_lines[eb_i])
    /\ eb_i' = eb_i + 1
    /\ UNCHANGED <<cfg, banner_vars, pc, detect_vars, detected, audit_vars, header_regex, eb_lines,
                   eb_block, eb_blocks>>

\* InBlock, at a line that continues the block
EbAppend ==
    /\ pc = "eb_inblock"
    /\ eb_i <= Len(eb_lines)
    /\ ~IsTerminator(eb_lines[eb_i])
    /\ ~StartsWithLetter(eb_lines[eb_i])
    /\ eb_block' = Append(eb_block, eb_lines[eb_i])
    /\ eb_i' = eb_i + 1
    /\ UNCHANGED <<cfg, banner_vars, pc, detect_vars, detected, audit_vars, header_regex, eb_lines,
                   eb_blocks>>

\* InBlock, at a line that ends the block, or at the end of the text
EbClose ==
    /\ pc = "eb_inblock"
    /\ IF eb_i > Len(eb_lines) THEN TRUE
       ELSE IsTerminator(eb_lines[eb_i]) \/ StartsWithLetter(eb_lines[eb_i])
    /\ eb_blocks' = Append(eb_blocks, Join(eb_block, "\n"))
    /\ eb_i' = AfterBlock(eb_i)
    /\ pc' = "eb_scan"
    /\ UNCHANGED <<cfg, banner_vars, detect_vars, detected, audit_vars, header_regex, eb_lines, eb_block>>

EbReturn ==
    /\ pc = "eb_scan"
    /\ eb_i > Len(eb_lines)
    /\ pc' = "eb_returned"
    /\ UNCHANGED <<cfg, banner_vars, detect_vars, detected, audit_vars, blocks_vars>>

InitBlocks ==
    /\ cfg \in BlockTexts
    /\ \E h \in BlockHeaders : header_regex = CompileHeader(h)
    /\ pc = "eb_start"
    /\ eb_lines = <<>> /\ eb_i = 0 /\ eb_block = <<>> /\ eb_blocks = <<>>
    /\ DetectIdle /\ AuditIdle /\ BannerIdle

NextBlocks == EbStart \/ EbHeader \/ EbSkip \/ EbAppend \/ EbClose \/ EbReturn

SpecBlocks == InitBlocks /\ [][NextBlocks]_vars

\* extract_banner, step by step
\* no declaration is found: return None
BnNoDeclaration ==
    /\ pc = "bn_start"
    /\ ~BannerStartFrom(cfg, Lower(cfg), 1, bn_type).found
    /\ bn_result' = None
    /\ pc' = "bn_returned"
    /\ UNCHANGED <<cfg, detect_vars, detected, audit_vars, blocks_vars, bn_type,
                   bn_start_delim, bn_after, bn_delims>>

\* the declaration is found: start_delim, after and the candidate list
BnDeclaration ==
    /\ pc = "bn_start"
    /\ LET start == BannerStartFrom(cfg, Lower(cfg), 1, bn_type) IN
       /\ start.found
       /\ bn_start_delim' = Strip(start.delim)
       /\ bn_after' = SubSeq(cfg, start.end, Len(cfg))
       /\ bn_delims' = possible_end_delims(Strip(start.delim))
    /\ pc' = "bn_try"
    /\ UNCHANGED <<cfg, detect_vars, detected, audit_vars, blocks_vars, bn_type,
                   bn_result>>

\* the candidate at the head of the list ends the banner: return its text
BnFound ==
    /\ pc = "bn_try"
    /\ bn_delims # <<>>
    /\ LET d == Head(bn_delims)
           m_end == BannerEndFrom(Lower(bn_after), 1, Lower(d))
       IN  /\ m_end # 0
           /\ bn_result' = "banner " \o bn_type \o " " \o bn_start_delim \o "\n"
                            \o StripNewlines(SubSeq(bn_after, 1, m_end - 1))
                            \o "\n" \o d
    /\ pc' = "bn_returned"
    /\ UNCHANGED <<cfg, detect_vars, detected, audit_vars, blocks_vars, bn_type,
                   bn_start_delim, bn_after, bn_delims>>

\* the candidate at the head of the list ends nothing: on to the next one
BnNextDelim ==
    /\ pc = "bn_try"
    /\ bn_delims # <<>>
    /\ BannerEndFrom(Lower(bn_after), 1, Lower(Head(bn_delims))) = 0
    /\ bn_delims' = Tail(bn_delims)
    /\ UNCHANGED <<cfg, pc, detect_vars, detected, audit_vars, blocks_vars, bn_type,
                   bn_start_delim, bn_after, bn_result>>

\* no candidate is left: return None
BnNotFound ==
    /\ pc = "bn_try"
    /\ bn_delims = <<>>
    /\ bn_result' = None
    /\ pc' = "bn_returned"
    /\ UNCHANGED <<cfg, detect_vars, detected, audit_vars, blocks_vars, bn_type,
                   bn_start_delim, bn_after, bn_delims>>

InitBanner ==
    /\ cfg \in BannerTexts
    /\ bn_type \in BannerTypes
    /\ bn_start_delim = None /\ bn_after = None /\ bn_delims = <<>> /\ bn_result = None
    /\ pc = "bn_start"
    /\ DetectIdle /\ AuditIdle /\ BlocksIdle

NextBanner == BnNoDeclaration \/ BnDeclaration \/ BnFound \/ BnNextDelim \/ BnNotFound

SpecBanner == InitBanner /\ [][NextBanner]_vars

\* the step-by-step run returns what the extract_banner operator computes
BannerAgree == pc = "bn_returned" => bn_result = extract_banner(cfg, bn_type)

\* the line-by-line run returns what the extract_blocks operator computes
BlocksAgree == pc = "eb_returned" => eb_blocks = extract_blocks(cfg, header_regex)

(***************************************************************************)
(* Properties of detect_device_type (SpecDetect).                          *)
(***************************************************************************)
Returned == pc = "returned"

C2_ConfidenceBands ==
    Returned =>
        LET top == Max3(router_score, switch_score, l3_score)
            conf == detected.confidence
        IN  /\ detected.device_type = "unknown" => conf = "Low"
            /\ detected.device_type # "unknown" =>
                 /\ conf = "High" <=> top >= 22
                 /\ conf = "Medium" <=> (14 <= top /\ top < 22)
                 /\ conf = "Low" <=> top < 14
            /\ indicators = <<>> =>
                 detected.device_type = "unknown" /\ conf = "Low"

\* C2 witness: a classified device whose top score is exactly 22
C2_Witness ==
    /\ Returned
    /\ detected.device_type # "unknown"
    /\ Max3(router_score, switch_score, l3_score) = 22
    /\ detected.confidence = "High"

\* the indicator texts in the order the classifier looks for their signals
DiscoveryOrder == <<
    "Router hardware model signature found",
    "Switch hardware model signature found",
    "Switchport found", "Spanning-tree found", "VLAN config found",
    "Port-channel config found", "DHCP snooping found",
    "NAT found", "VPN/Crypto found", "WAN interface found", "Routing protocol found",
    "SVI found (interface VlanX)", "ip routing enabled",
    "Static route found (ip route)", "Routed port found (no switchport)" >>

PositionIn(list, x) == CHOOSE k \in DOMAIN list : list[k] = x

\* whether list holds entries of DiscoveryOrder only, in that order
InDiscoveryOrder(list) ==
    /\ \A k \in DOMAIN list : \E j \in DOMAIN DiscoveryOrder : DiscoveryOrder[j] = list[k]
    /\ \A j, k \in DOMAIN list :
         j < k => PositionIn(DiscoveryOrder, list[j]) < PositionIn(DiscoveryOrder, list[k])

\* C3: the returned indicators are at most 15, are the first 15 of the
\* indicators collected, stand in discovery order, and the returned scores
\* are the full accumulators.
C3_IndicatorsPrefix ==
    Returned =>
        /\ Len(detected.indicators) <= 15
        /\ detected.indicators = Take(indicators, 15)
        /\ InDiscoveryOrder(indicators)
        /\ detected.scores.router_score = router_score
        /\ detected.scores.switch_score = switch_score
        /\ detected.scores.l3_score = l3_score

\* C3 witness: four indicators from four passes, the last of them fired by
\* the first line of the text
C3_Witness ==
    /\ Returned
    /\ Len(detected.indicators) = 4
    /\ detected.indicators[1] = "Router hardware model signature found"
    /\ detected.indicators[4] = "Routed port found (no switchport)"
    /\ SplitLines(cfg)[1] = " no switchport"

\* whether the signal with this indicator text fired
Fired(reason) == \E k \in DOMAIN indicators : indicators[k] = reason

\* whether the text has this line
HasLine(line) == \E j \in DOMAIN SplitLines(cfg) : SplitLines(cfg)[j] = line

\* the weight of a signal that fired, nothing for one that did not
Weight(fired, w) == IF fired THEN w ELSE 0

\* C17: each of the four L3 signals fires on its line and adds to both
\* switch_score and l3_score (5/8 SVI, 4/8 ip routing, 3/6 ip route, 3/6 no
\* switchport), switch_score on top of the switch model and feature weights;
\* a text in which SVI, ip routing, switchport and spanning-tree fire has
\* l3_score >= 12 and switch_score >= 10 and is a switch_l3.
C17_L3SignalsAddToBoth ==
    Returned =>
        LET svi == Fired("SVI found (interface VlanX)")
            routing == Fired("ip routing enabled")
            route == Fired("Static route found (ip route)")
            routed == Fired("Routed port found (no switchport)")
        IN  /\ svi <=> HasLine("interface Vlan10")
            /\ routing <=> HasLine("ip routing")
            /\ route <=> HasLine("ip route 10.1.0.0 10.0.0.1")
            /\ routed <=> HasLine(" no switchport")
            /\ l3_score = Weight(svi, 8) + Weight(routing, 8)
                          + Weight(route, 6) + Weight(routed, 6)
            /\ switch_score =
                   Weight(Fired("Switch hardware model signature found"), 8)
                   + Weight(Fired("Switchport found"), 6)
                   + Weight(Fired("Spanning-tree found"), 6)
                   + Weight(Fired("VLAN config found"), 4)
                   + Weight(Fired("Port-channel config found"), 3)
                   + Weight(Fired("DHCP snooping found"), 5)
                   + Weight(svi, 5) + Weight(routing, 4)
                   + Weight(route, 3) + Weight(routed, 3)
            /\ (svi /\ routing /\ Fired("Switchport found") /\ Fired("Spanning-tree found"))
               => /\ l3_score >= 12 /\ switch_score >= 10
                  /\ detected.device_type = "switch_l3"

\* C17 witness: the text of an SVI, ip routing, a switchport line and a
\* spanning-tree line, classified switch_l3 with l3_score 16, switch_score 21
C17_Witness ==
    /\ Returned
    /\ Len(SplitLines(cfg)) = 4
    /\ HasLine("interface Vlan10") /\ HasLine("ip routing")
    /\ HasLine(" switchport mode access") /\ HasLine("spanning-tree mode rapid-pvst")
    /\ l3_score = 16 /\ switch_score = 21
    /\ detected.device_type = "switch_l3"

\* the lines of the text, as a set
LinesOf(text) == {SplitLines(text)[j] : j \in DOMAIN SplitLines(text)}

\* C18: every signal fires at most once per call, however many lines match
\* it: no indicator is collected twice, router_score <= 31,
\* switch_score <= 47, l3_score <= 28, l3_score <= 2 * switch_score, at most
\* 15 indicators are collected, the cut to 15 drops none, and there are as
\* many indicators as signals that fired (one per different line here).
C18_EachSignalOnce ==
    Returned =>
        /\ \A j, k \in DOMAIN indicators : j # k => indicators[j] # indicators[k]
        /\ router_score <= 31
        /\ switch_score <= 47
        /\ l3_score <= 28
        /\ l3_score <= 2 * switch_score
        /\ Len(indicators) <= 15
        /\ detected.indicators = indicators
        /\ Len(indicators) = Cardinality(LinesOf(cfg))

\* C18 witness: every signal's line twice in the text, all three scores at
\* their largest and 15 indicators
C18_Witness ==
    /\ Returned
    /\ Len(SplitLines(cfg)) = 30
    /\ router_score = 31 /\ switch_score = 47 /\ l3_score = 28
    /\ Len(detected.indicators) = 15

\* the members of a set of line numbers, in increasing order
RECURSIVE InOrder(_)
InOrder(S) ==
    IF S = {} THEN <<>>
    ELSE LET m == CHOOSE x \in S : \A y \in S : x <= y
         IN  <<m>> \o InOrder(S \ {m})

(***************************************************************************)
(* Properties of run_rule (SpecRule): every row of results is the outcome  *)
(* of run_rule on cfg and the rule at the same position of rules.          *)
(***************************************************************************)
WholeTextTypes == {"regex", "regex_capture", "regex_capture_all"}
BlockTypes == {"block_present", "block_absent"}
KnownTypes == {"manual", "banner"} \cup WholeTextTypes \cup BlockTypes

HasPattern(rule) == Truthy(Get(rule, "pattern", ""))
HasBlock(rule) == Truthy(Get(rule, "block", ""))

\* whether the rule's pattern occurs in the text
PatternFound(text, rule) == re_search(Get(rule, "pattern", ""), text, TRUE).found

\* whether a banner of the rule's banner_type can be extracted from the text
BannerFound(text, rule) ==
    extract_banner(text, Lower(Strip(Get(rule, "banner_type", "login")))) # None

\* the blocks of the text under the rule's block header
BlocksOf(text, rule) == extract_blocks(text, CompileHeader(Get(rule, "block", "")))

\* whether the rule's pattern occurs in some block of the text
FoundInBlock(text, rule) ==
    \E k \in DOMAIN BlocksOf(text, rule) :
        re_search(Get(rule, "pattern", ""), BlocksOf(text, rule)[k], TRUE).found

\* whether what the rule looks for exists in the text
MatchExists(text, rule) ==
    CASE RuleType(rule) \in WholeTextTypes -> HasPattern(rule) /\ PatternFound(text, rule)
      [] RuleType(rule) = "banner" -> BannerFound(text, rule)
      [] RuleType(rule) \in BlockTypes ->
            HasPattern(rule) /\ HasBlock(rule) /\ FoundInBlock(text, rule)
      [] OTHER -> FALSE

\* C4: for regex, regex_capture, regex_capture_all (with a pattern) and
\* banner rules the status follows the expect polarity: under present it is
\* PASS when the pattern or banner is found and FAIL otherwise, under absent
\* it is FAIL when found and PASS otherwise.
C4_ExpectPolarity ==
    \A k \in DOMAIN results :
        LET rule == rules[k]
            applies == \/ RuleType(rule) \in WholeTextTypes /\ HasPattern(rule)
                       \/ RuleType(rule) = "banner"
            found == MatchExists(cfg, rule)
            expect == Expect(rule, "present")
        IN  applies =>
              /\ expect = "present" =>
                   results[k].Status = IF found THEN "PASS" ELSE "FAIL"
              /\ expect = "absent" =>
                   results[k].Status = IF found THEN "FAIL" ELSE "PASS"

\* C4 witness: a regex rule with expect=present whose pattern is found
C4_Witness ==
    /\ Len(results) = 1
    /\ RuleType(rules[1]) = "regex"
    /\ Get(rules[1], "pattern", "") = "login"
    /\ Expect(rules[1], "present") = "present"
    /\ PatternFound(cfg, rules[1])
    /\ results[1].Status = "PASS"

\* C5: a block_present or block_absent rule with block and pattern set, on a
\* text in which the header starts no block, gives FAIL, a "block not found"
\* remark and evidence "-", whatever its expect.
C5_BlockNotFoundFails ==
    \A k \in DOMAIN results :
        LET rule == rules[k] IN
        (/\ RuleType(rule) \in BlockTypes
         /\ HasBlock(rule) /\ HasPattern(rule)
         /\ BlocksOf(cfg, rule) = <<>>)
        => /\ results[k].Status = "FAIL"
           /\ Contains(results[k].Remark, "block not found")
           /\ results[k].Evidence = "-"

\* C5 witness: a block_absent rule with expect=absent and no block in the text
C5_Witness ==
    /\ Len(results) = 1
    /\ RuleType(rules[1]) = "block_absent"
    /\ Expect(rules[1], "absent") = "absent"
    /\ HasBlock(rules[1]) /\ HasPattern(rules[1])
    /\ BlocksOf(cfg, rules[1]) = <<>>
    /\ results[1].Status = "FAIL"

C7_EvidenceNeverEmpty == \A k \in DOMAIN results : results[k].Evidence # ""

\* C8: a rule of a matching type with expect=manual gives MANUAL, and when
\* what it looks for exists in the text the evidence is captured (not "-")
C8_ManualCapturesEvidence ==
    \A k \in DOMAIN results :
        LET rule == rules[k] IN
        (RuleType(rule) \in KnownTypes \ {"manual"} /\ Get(rule, "expect", "") = "manual")
        => /\ results[k].Status = "MANUAL"
           /\ MatchExists(cfg, rule) => results[k].Evidence # "-"

\* the matches re.finditer gives for the rule's pattern in the text
MatchesOf(text, rule) == re_finditer(Get(rule, "pattern", ""), text, TRUE)

\* the smaller of two numbers
Min(a, b) == IF a < b THEN a ELSE b

\* C13: for a regex_capture_all rule (expect present or absent) whose
\* pattern has n >= 1 matches in the text, the remark states n and the
\* evidence has one line per match, min(n, 200) of them.
C13_CountAndEvidencePerMatch ==
    \A k \in DOMAIN results :
        LET rule == rules[k]
            n == Len(MatchesOf(cfg, rule))
        IN  (/\ RuleType(rule) = "regex_capture_all"
             /\ HasPattern(rule)
             /\ Expect(rule, "present") \in {"present", "absent"}
             /\ n >= 1)
            => /\ Contains(results[k].Remark, ToString(n))
               /\ Len(SplitLines(results[k].Evidence)) = Min(n, max_lines_all)

\* the pattern the evidence lines of a block rule are chosen by
EvidencePatternOf(rule) ==
    IF Truthy(Get(rule, "evidence_pattern", None))
    THEN Get(rule, "evidence_pattern", None) ELSE Get(rule, "pattern", "")

\* the blocks of the text in which the rule's pattern matches
MatchingBlocks(text, rule) ==
    SelectSeq(BlocksOf(text, rule),
              LAMBDA b : re_search(Get(rule, "pattern", ""), b, TRUE).found)

\* whether a block rule reports the evidence it assembled
ReportsBlockEvidence(rule) ==
    \/ RuleType(rule) = "block_present"
    \/ RuleType(rule) = "block_absent" /\ Expect(rule, "absent") = "absent"

\* the lines of a text, each without the whitespace around it
StrippedLines(text) == {Strip(l) : l \in {SplitLines(text)[j] : j \in DOMAIN SplitLines(text)}}

\* C14: the evidence of a block_present or block_absent rule holds, for each
\* block in which the pattern matches, the block's header line and the lines
\* of the block that match evidence_pattern (or pattern when there is none);
\* it holds no line of any other kind.
C14_BlockEvidenceHasHeader ==
    \A k \in DOMAIN results :
        LET rule == rules[k]
            mbs == MatchingBlocks(cfg, rule)
            shown == StrippedLines(results[k].Evidence)
            stated == UNION {
                {Strip(SplitLines(mbs[b])[1])} \cup
                {Strip(l) : l \in {SplitLines(mbs[b])[j] : j \in
                    {i \in DOMAIN SplitLines(mbs[b]) :
                        re_search(EvidencePatternOf(rule), SplitLines(mbs[b])[i], FALSE).found}}}
                : b \in DOMAIN mbs}
        IN  (/\ RuleType(rule) \in BlockTypes
             /\ HasBlock(rule) /\ HasPattern(rule)
             /\ ReportsBlockEvidence(rule)
             /\ mbs # <<>>)
            => shown \ {""} = stated

\* the expect value a block rule runs under: block_present defaults to
\* present, block_absent to absent
BlockExpect(rule) ==
    Expect(rule, IF RuleType(rule) = "block_absent" THEN "absent" ELSE "present")

\* C15: for a block_present or block_absent rule with block and pattern set
\* and at least one block extracted, the status follows the expect polarity
\* whichever of the two types the rule has: under present PASS when the
\* pattern matches within some block and FAIL otherwise, under absent FAIL
\* when it matches and PASS otherwise.
C15_BlockExpectPolarity ==
    \A k \in DOMAIN results :
        LET rule == rules[k]
            found == FoundInBlock(cfg, rule)
        IN  (/\ RuleType(rule) \in BlockTypes
             /\ HasBlock(rule) /\ HasPattern(rule)
             /\ BlocksOf(cfg, rule) # <<>>)
            => /\ BlockExpect(rule) = "present" =>
                    results[k].Status = IF found THEN "PASS" ELSE "FAIL"
               /\ BlockExpect(rule) = "absent" =>
                    results[k].Status = IF found THEN "FAIL" ELSE "PASS"

\* the numbers of the lines of the text that match the pattern
LinesMatching(text, pattern) ==
    {j \in DOMAIN SplitLines(text) : re_search(pattern, SplitLines(text)[j], FALSE).found}

\* the first n entries of a sequence of line numbers, as lines of the text
\* without their trailing whitespace
FirstLines(text, js, n) ==
    [k \in 1..Min(Len(js), n) |-> RStrip(SplitLines(text)[js[k]])]

\* C16: for a regex rule (expect present or absent) the evidence is the
\* first lines of the text that match the pattern, at most 8, in text order
\* and without trailing whitespace, or "-" when no line matches; and when
\* the status is FAIL under absent or PASS under present, some line matches
\* and the evidence is not "-".
C16_RegexEvidenceLines ==
    \A k \in DOMAIN results :
        LET rule == rules[k]
            pattern == Get(rule, "pattern", "")
            js == InOrder(LinesMatching(cfg, pattern))
            finding == \/ Expect(rule, "present") = "absent" /\ results[k].Status = "FAIL"
                       \/ Expect(rule, "present") = "present" /\ results[k].Status = "PASS"
        IN  (/\ RuleType(rule) = "regex"
             /\ HasPattern(rule)
             /\ Expect(rule, "present") \in {"present", "absent"})
            => /\ results[k].Evidence =
                    IF js = <<>> THEN "-"
                    ELSE Join(FirstLines(cfg, js, max_lines_regex), "\n")
               /\ finding => js # <<>> /\ results[k].Evidence # "-"

(***************************************************************************)
(* Properties of the audit loop (SpecAudit).                               *)
(***************************************************************************)
\* C9: the results are one row per rule, in the rule list's order: row k
\* carries the id, section, title, risk and recommendation of rule k (or
\* their defaults) with run_rule's status, remark and evidence for rule k;
\* when the loop is over there are as many rows as rules.
C9_OneRowPerRule ==
    /\ Len(results) <= Len(rules)
    /\ pc = "report" => Len(results) = Len(rules)
    /\ \A k \in DOMAIN results :
        /\ results[k].ID = Get(rules[k], "id", "N/A")
        /\ results[k].Section = Get(rules[k], "section", "-")
        /\ results[k].Title = Get(rules[k], "title", "-")
        /\ results[k].Risk = Get(rules[k], "risk", "Medium")
        /\ results[k].Recommendation = Get(rules[k], "recommendation", "-")
        /\ <<results[k].Status, results[k].Remark, results[k].Evidence>>
             = run_rule(cfg, rules[k])

\* C9 witness: a finished audit of three different rules, the second of them
\* incomplete and reported MANUAL, the first one passed
C9_Witness ==
    /\ pc = "report"
    /\ Len(results) = 3
    /\ Cardinality({rules[k] : k \in DOMAIN rules}) = 3
    /\ results[1].Status = "PASS"
    /\ ~HasPattern(rules[2]) /\ results[2].Status = "MANUAL"
    /\ results[3].ID = "9.9"

\* C19: the audit selects its ruleset by the device type alone, for each of
\* the four types: the router ruleset for router, the L3-switch ruleset for
\* switch_l3, the L2-switch ruleset for switch_l2 and for unknown; a device
\* that was not classified is audited all the same, rule by rule.
C19_RulesetByDeviceType ==
    /\ pc \in {"load", "loop", "report"} =>
        /\ detected.device_type \in {"router", "switch_l3", "switch_l2", "unknown"}
        /\ detected.device_type = "router" => benchmark_file = ROUTER_JSON
        /\ detected.device_type = "switch_l3" => benchmark_file = SWITCH_L3_JSON
        /\ detected.device_type \in {"switch_l2", "unknown"}
             => benchmark_file = SWITCH_L2_JSON
    /\ pc = "report" => Len(results) = Len(rules)

\* C19 witness: an unclassified device audited against the L2-switch ruleset
C19_Witness ==
    /\ pc = "report"
    /\ detected.device_type = "unknown"
    /\ detected.confidence = "Low"
    /\ benchmark_file = SWITCH_L2_JSON
    /\ Len(results) = 2

\* two router texts of different scores and confidence get the same ruleset
C19_WitnessRouterHigh ==
    /\ pc = "report"
    /\ detected.device_type = "router"
    /\ detected.confidence = "High"
    /\ benchmark_file = ROUTER_JSON

(***************************************************************************)
(* Properties of extract_blocks (SpecBlocks).                              *)
(***************************************************************************)
\* the lines that match the header pattern and start with a letter
HeaderLines ==
    {k \in DOMAIN eb_lines :
        HeaderMatches(header_regex, eb_lines[k]) /\ StartsWithLetter(eb_lines[k])}

\* C10: a line that ends a block by starting with an unindented letter is
\* looked at again by the scan, so every unindented line that matches the
\* header starts a block of its own: there are as many blocks as such lines.
C10_EndingLineIsRescanned ==
    pc = "eb_returned" => Len(eb_blocks) = Cardinality(HeaderLines)

\* the lines that match the header pattern
AllHeaderLines == {k \in DOMAIN eb_lines : HeaderMatches(header_regex, eb_lines[k])}

\* the '!' lines
TerminatorLines == {k \in DOMAIN eb_lines : IsTerminator(eb_lines[k])}

\* every header line is followed by a '!' line before the next header line
BangTerminated ==
    \A k \in AllHeaderLines : \A k2 \in AllHeaderLines :
        k < k2 => \E t \in TerminatorLines : k < t /\ t < k2

\* the first '!' line after line k, or the line after the last one
FirstTerminatorAfter(k) ==
    IF \E t \in TerminatorLines : t > k
    THEN CHOOSE t \in TerminatorLines : t > k /\ \A u \in TerminatorLines : u > k => t <= u
    ELSE Len(eb_lines) + 1

\* C11: on a text whose header stanzas are each ended by a '!' line before
\* the next header, extract_blocks returns one block per header line, in
\* text order; block n starts with the n-th header line and holds only lines
\* that follow it contiguously and come before its '!' line (so no '!' line
\* is in a block and no line is in two blocks).  Without any header line the
\* result is the empty sequence.
C11_OneBlockPerStanza ==
    pc = "eb_returned" =>
        /\ AllHeaderLines = {} => eb_blocks = <<>>
        /\ BangTerminated =>
            LET hs == InOrder(AllHeaderLines) IN
            /\ Len(eb_blocks) = Len(hs)
            /\ \A n \in DOMAIN hs :
                \E e \in hs[n] .. FirstTerminatorAfter(hs[n]) - 1 :
                    eb_blocks[n] = Join(SubSeq(eb_lines, hs[n], e), "\n")

\* C11 witness: two stanzas with a '!' line between them gave two blocks
C11_Witness ==
    /\ pc = "eb_returned"
    /\ BangTerminated
    /\ Cardinality(AllHeaderLines) = 2
    /\ eb_blocks = <<"line vty 0 4\n login", "line vty 0 4">>

(***************************************************************************)
(* Properties of extract_banner (SpecBanner).                              *)
(***************************************************************************)
\* the delimiter a line declares for a banner of type ty, when the line reads
\* "banner <ty> <delimiter>"; None for any other line
DeclaredDelimiter(line, ty) ==
    LET l == Strip(line)
        q3 == SkipWs(l, 7)
        q4 == q3 + Len(ty)
        q5 == SkipWs(l, q4)
        q6 == SkipNonWs(l, q5)
    IN  IF /\ LitAt(l, 1, "banner") /\ q3 > 7
           /\ LitAt(l, q3, ty) /\ q5 > q4
           /\ q6 > q5 /\ q6 = Len(l) + 1
        THEN SubSeq(l, q5, q6 - 1)
        ELSE None

\* the lines without their blank lines at the front and at the back
RECURSIVE TrimBlankLines(_)
TrimBlankLines(ls) ==
    IF ls = <<>> THEN <<>>
    ELSE IF Strip(Head(ls)) = "" THEN TrimBlankLines(Tail(ls))
    ELSE IF Strip(ls[Len(ls)]) = "" THEN TrimBlankLines(SubSeq(ls, 1, Len(ls) - 1))
    ELSE ls

\* the first line after line k that equals the candidate c but for the
\* whitespace around it, or 0
FirstLineEqual(ls, k, c) ==
    LET js == {j \in DOMAIN ls : j > k /\ Strip(ls[j]) = c} IN
    IF js = {} THEN 0 ELSE CHOOSE j \in js : \A j2 \in js : j <= j2

\* the banner the stated rule gives: declaration at line k with delimiter d,
\* candidates cs tried in order
RECURSIVE BannerByLines(_, _, _, _, _)
BannerByLines(ls, k, d, cs, ty) ==
    IF cs = <<>> THEN None
    ELSE LET j == FirstLineEqual(ls, k, Head(cs)) IN
         IF j # 0
         THEN "banner " \o ty \o " " \o d \o "\n"
              \o Join(TrimBlankLines(SubSeq(ls, k + 1, j - 1)), "\n")
              \o "\n" \o Head(cs)
         ELSE BannerByLines(ls, k, d, Tail(cs), ty)

\* the first declaration line and what follows from it, as stated
StatedBanner(text, ty) ==
    LET ls == SplitLines(text)
        ks == {k \in DOMAIN ls : DeclaredDelimiter(ls[k], ty) # None}
    IN  IF ks = {} THEN None
        ELSE LET k == CHOOSE x \in ks : \A y \in ks : x <= y
                 d == DeclaredDelimiter(ls[k], ty)
             IN  BannerByLines(ls, k, d, Dedup(<<d, "^C">>, {}), ty)

\* C12: extract_banner finds a banner exactly when a declaration line
\* "banner <type> <delimiter>" exists and a later line equals, but for the
\* whitespace around it, one of the candidates [declared delimiter, "^C"];
\* the first candidate with such a line wins and the body is the lines
\* between the declaration and the first such line, blank lines at its front
\* and back removed.
C12_BannerByDeclaredDelimiter ==
    pc = "bn_returned" => bn_result = StatedBanner(cfg, bn_type)

====
